---- MODULE Spec2Model ----
(***************************************************************************)
(* Model of AmazonPA.execute (src/nodes/AmazonPA/AmazonPA.node.ts).        *)
(*                                                                         *)
(* execute is one async function; its suspension points are the awaited    *)
(* calls into the amazon-paapi client.  Every action below is the code     *)
(* that runs between two suspension points.  The host runtime              *)
(* (getInputData, getNodeParameter, getCredentials) and the client library *)
(* (GetItems, SearchItems, GetBrowseNodes) are the environment: the input  *)
(* items, the credentials and every response or failure of a call are      *)
(* chosen nondeterministically.                                            *)
(*                                                                         *)
(* Encoding of JavaScript values:                                          *)
(*   - a value that may be null/undefined is a sequence of length 0 or 1:  *)
(*     None is null/undefined, Some(x) is the value x;                     *)
(*   - a string whose characters matter (itemIds, browseNodeIds) is a      *)
(*     sequence of one-character strings; other strings are opaque;        *)
(*   - a template-literal concatenation is the sequence of its pieces.     *)
(***************************************************************************)
EXTENDS Integers, Sequences, FiniteSets, TLC

VARIABLES
    items,              \* getInputData(): the node parameters of each input item
    credentials,        \* getCredentials('amazonPaApi')
    pc,                 \* position of execute
    i,                  \* loop index (0-based, as in the code)
    returnData,         \* the output records appended so far
    commonParameters,   \* None until resolved, then Some(auth record)
    outstanding,        \* external calls issued and not yet settled
    callLog,            \* history: every external call issued, in issue order
    received,           \* history: every response an external call resolved with
    raised,             \* history: every error raised inside the per-item try
    error,              \* None, or Some(message) of the error execute rejected with
    output              \* None, or Some(value execute resolved with)

vars == <<items, credentials, pc, i, returnData, commonParameters,
          outstanding, callLog, received, raised, error, output>>

----------------------------------------------------------------------------
(* Bounds of the model *)

MaxItems == 2
MaxIdLen == 5

----------------------------------------------------------------------------
(* JavaScript value helpers *)

None == <<>>
Some(x) == <<x>>

\* `if (s)` for a `string | null`: null and '' are falsy.
TruthyOnlyNonNull(s) == s # None
Truthy(s) == s # None /\ s[1] # <<>>

\* String.prototype.includes for a one-character needle.
Includes(s, c) == \E k \in 1..Len(s) : s[k] = c

\* String.prototype.split for a one-character separator: scan left to right,
\* cut at every separator, keep empty pieces.
RECURSIVE SplitFrom(_, _, _, _, _)
SplitFrom(s, sep, k, cur, acc) ==
    IF k > Len(s) THEN Append(acc, cur)
    ELSE IF s[k] = sep THEN SplitFrom(s, sep, k + 1, <<>>, Append(acc, cur))
    ELSE SplitFrom(s, sep, k + 1, Append(cur, s[k]), acc)

SplitDropEmpty(s, sep) == SelectSeq(SplitFrom(s, sep, 1, <<>>, <<>>), LAMBDA p : p # <<>>)
Split(s, sep) == SplitFrom(s, sep, 1, <<>>, <<>>)

\* itemIds.includes(',') ? itemIds.split(',') : [itemIds]
ParseIds(s) == IF Includes(s, ",") THEN Split(s, ",") ELSE <<s>>

----------------------------------------------------------------------------
(* Inputs *)

Operations == {"searchItems", "getItems", "getBrowseNodes"}

\* An operation value outside the options list (reachable through an expression).
OtherOperation == "other"

IdAlphabet == {"A", "B", "C", ","}

RECURSIVE StringsOfLen(_)
StringsOfLen(n) ==
    IF n = 0 THEN {<<>>}
    ELSE {Append(s, c) : s \in StringsOfLen(n - 1), c \in IdAlphabet}

IdStrings == UNION {StringsOfLen(n) : n \in 0..MaxIdLen}

\* Declared defaults of the node properties.
DefaultIds == Some(<<>>)
DefaultKeywords == ""
DefaultSearchIndex == Some("All")

PartnerTagValues == {"", "override-21"}
KeywordValues == {"socks", "tv"}
\* None: the parameter is not set on the node, getNodeParameter returns its fallback.
SearchIndexValues == {None, Some("All"), Some("Electronics")}

ItemsTagged(idValues, t) ==
    {[operation |-> "getItems", partnerTag |-> t, itemIds |-> s,
      keywords |-> DefaultKeywords, searchIndex |-> DefaultSearchIndex,
      browseNodeIds |-> DefaultIds] : s \in idValues}
    \cup
    {[operation |-> "searchItems", partnerTag |-> t, itemIds |-> DefaultIds,
      keywords |-> k, searchIndex |-> c,
      browseNodeIds |-> DefaultIds] : k \in KeywordValues, c \in SearchIndexValues}
    \cup
    {[operation |-> "getBrowseNodes", partnerTag |-> t, itemIds |-> DefaultIds,
      keywords |-> DefaultKeywords, searchIndex |-> DefaultSearchIndex,
      browseNodeIds |-> s] : s \in idValues}
    \cup
    {[operation |-> OtherOperation, partnerTag |-> t, itemIds |-> DefaultIds,
      keywords |-> DefaultKeywords, searchIndex |-> DefaultSearchIndex,
      browseNodeIds |-> DefaultIds]}

ItemsFor(idValues) == UNION {ItemsTagged(idValues, t) : t \in PartnerTagValues}

CredentialValues ==
    {[accessKey |-> "AK", secretKey |-> "SK", partnerTag |-> p, marketplace |-> "www.amazon.com"]
        : p \in {"", "default-20"}}

\* this.getNodeParameter(name, idx) and this.getNodeParameter(name, idx, fallback)
GetNodeParameter(name, idx) == items[idx + 1][name]
GetNodeParameterOr(name, idx, fallback) ==
    IF items[idx + 1][name] = None THEN fallback ELSE items[idx + 1][name][1]

----------------------------------------------------------------------------
(* Environment: what the client library can answer *)

SearchResponses ==
    { Some([body |-> Some([SearchResult |-> Some([Items |-> Some(<<[ASIN |-> "X1"]>>)])])]),
      Some([body |-> Some([SearchResult |-> None])]),
      None }

Envelopes ==
    { Some([body |-> Some([ItemsResult |-> "one"])]),
      Some([body |-> Some([Errors |-> "NoResults"])]) }

\* Values a rejected call can throw: an Error, or a value that is not an Error.
Causes ==
    { [isError |-> TRUE, message |-> "timeout"],
      [isError |-> FALSE, message |-> "timeout"] }

----------------------------------------------------------------------------
(* Pieces of execute *)

ConfigMessage == <<"PartnerTag is required but was not provided in both the request and credentials.">>
ItemIdsMessage == "Item IDs are required but were not provided."
BrowseNodeIdsMessage == "Browse Node IDs are required but were not provided."
WrapPrefix == "Failed to execute Amazon PA API operation: "
UnknownMessage == <<"Failed to execute Amazon PA API operation due to an unknown error.">>

Resources ==
    <<"ItemInfo.Title", "Offers.Listings.Price", "Images.Primary.Small",
      "Images.Primary.Medium", "Images.Primary.Large">>

\* this.getNodeParameter('partnerTag', 0, '') || credentials.partnerTag
ResolveCredentialFirst ==
    IF credentials.partnerTag # "" THEN credentials.partnerTag
    ELSE GetNodeParameter("partnerTag", 0)
ResolvePartnerTag ==
    IF GetNodeParameter("partnerTag", 0) # "" THEN GetNodeParameter("partnerTag", 0)
    ELSE credentials.partnerTag

\* if (!partnerTag)
NeverMissing(tag) == FALSE
PartnerTagMissing(tag) == tag = ""

CommonParameters(tag) ==
    [AccessKey |-> credentials.accessKey, SecretKey |-> credentials.secretKey,
     PartnerTag |-> tag, Marketplace |-> credentials.marketplace,
     PartnerType |-> "Associates"]

\* requestParameters of the searchItems branch
SearchRequestAlwaysIndex(keywords, searchIndex) ==
    [Keywords |-> keywords, SearchIndex |-> searchIndex]
SearchRequest(keywords, searchIndex) ==
    IF searchIndex # "All"
    THEN [Keywords |-> keywords, SearchIndex |-> searchIndex]
    ELSE [Keywords |-> keywords]

\* responseData?.body?.SearchResult?.Items
SearchResultItems(r) ==
    IF r = None THEN None
    ELSE IF r[1].body = None THEN None
    ELSE IF r[1].body[1].SearchResult = None THEN None
    ELSE r[1].body[1].SearchResult[1].Items

\* { json: { results: ... } } and { json: responseData }
ResultsRecord(list) == [json |-> [kind |-> "results", results |-> list]]
RawRecord(r) == [json |-> [kind |-> "raw", response |-> r]]

\* the record the searchItems branch pushes
SearchRecord(r) ==
    IF SearchResultItems(r) # None THEN ResultsRecord(SearchResultItems(r)[1])
    ELSE ResultsRecord(<<>>)

\* the message of the error the catch block throws
WrapUnwrapped(cause) == <<cause.message>>
WrapMessage(cause) ==
    IF cause.isError THEN <<WrapPrefix, cause.message>> ELSE UnknownMessage

\* i++
SameIndex(n) == n
NextIndex(n) == n + 1

\* catch (error) { ...; throw new Error(...) }: the run rejects, nothing is returned.
CatchAndContinue(cause) ==
    /\ pc' = "loop"
    /\ i' = i + 1
    /\ raised' = Append(raised, [item |-> i, cause |-> cause])
    /\ outstanding' = <<>>
    /\ UNCHANGED <<items, credentials, returnData, commonParameters, callLog,
                   received, error, output>>
Catch(cause) ==
    /\ pc' = "thrown"
    /\ error' = Some(WrapMessage(cause))
    /\ raised' = Append(raised, [item |-> i, cause |-> cause])
    /\ outstanding' = <<>>
    /\ UNCHANGED <<items, credentials, i, returnData, commonParameters, callLog,
                   received, output>>

\* await amazonPaapi.<fn>(commonParameters, requestParameters): issue and suspend.
Await(fn, req, at) ==
    LET call == [fn |-> fn, item |-> i, auth |-> commonParameters[1], req |-> req] IN
    /\ outstanding' = Append(outstanding, call)
    /\ callLog' = Append(callLog, call)
    /\ pc' = at
    /\ UNCHANGED <<items, credentials, i, returnData, commonParameters,
                   received, raised, error, output>>

\* the awaited call resolved with r; `pushed` is what the rest of the iteration appends
Resume(r, pushed) ==
    /\ outstanding' = <<>>
    /\ received' = Append(received, [item |-> i, response |-> r])
    /\ returnData' = returnData \o pushed
    /\ i' = NextIndex(i)
    /\ pc' = "loop"
    /\ UNCHANGED <<items, credentials, commonParameters, callLog, raised, error, output>>

----------------------------------------------------------------------------
(* Actions *)

\* lines 130-150: read the inputs, resolve the partner tag, build commonParameters
ResolveAuth ==
    /\ pc = "start"
    /\ IF PartnerTagMissing(ResolvePartnerTag)
       THEN /\ pc' = "thrown"
            /\ error' = Some(ConfigMessage)
            /\ UNCHANGED commonParameters
       ELSE /\ pc' = "loop"
            /\ commonParameters' = Some(CommonParameters(ResolvePartnerTag))
            /\ UNCHANGED error
    /\ UNCHANGED <<items, credentials, i, returnData, outstanding, callLog,
                   received, raised, output>>

\* lines 153-179: an iteration whose operation is getItems, up to the await
IterGetItems ==
    /\ pc = "loop" /\ i < Len(items)
    /\ GetNodeParameter("operation", i) = "getItems"
    /\ LET itemIds == GetNodeParameter("itemIds", i) IN
       IF Truthy(itemIds)
       THEN Await("GetItems",
                  [ItemIds |-> ParseIds(itemIds[1]), Resources |-> Resources],
                  "awaitGetItems")
       ELSE Catch([isError |-> TRUE, message |-> ItemIdsMessage])

\* lines 179-184, 228-232: GetItems resolved; the raw response is appended
GetItemsReturns ==
    /\ pc = "awaitGetItems"
    /\ \E r \in Envelopes : Resume(r, <<RawRecord(r)>>)

\* lines 185-204: an iteration whose operation is searchItems, up to the await
IterSearchItems ==
    /\ pc = "loop" /\ i < Len(items)
    /\ GetNodeParameter("operation", i) = "searchItems"
    /\ LET keywords == GetNodeParameter("keywords", i)
           searchIndex == GetNodeParameterOr("searchIndex", i, "All")
       IN Await("SearchItems", SearchRequest(keywords, searchIndex), "awaitSearchItems")

\* lines 204-210, 228-232: SearchItems resolved.  The branch appends the
\* results record; the response was bound to the branch's own `const
\* responseData`, so the function-level `responseData` is still undefined
\* when the common `returnData.push({ json: responseData })` runs.
SearchItemsReturns ==
    /\ pc = "awaitSearchItems"
    /\ \E r \in SearchResponses : Resume(r, <<SearchRecord(r), RawRecord(None)>>)

\* lines 216-225: an iteration whose operation is getBrowseNodes, up to the await
IterGetBrowseNodes ==
    /\ pc = "loop" /\ i < Len(items)
    /\ GetNodeParameter("operation", i) = "getBrowseNodes"
    /\ LET browseNodeIds == GetNodeParameter("browseNodeIds", i) IN
       IF Truthy(browseNodeIds)
       THEN Await("GetBrowseNodes",
                  [BrowseNodeIds |-> ParseIds(browseNodeIds[1])],
                  "awaitGetBrowseNodes")
       ELSE Catch([isError |-> TRUE, message |-> BrowseNodeIdsMessage])

\* lines 225, 228-232: GetBrowseNodes resolved; the raw response is appended
GetBrowseNodesReturns ==
    /\ pc = "awaitGetBrowseNodes"
    /\ \E r \in Envelopes : Resume(r, <<RawRecord(r)>>)

\* lines 158-232: no branch of the if-chain matches; responseData stays undefined
IterOtherOperation ==
    /\ pc = "loop" /\ i < Len(items)
    /\ GetNodeParameter("operation", i) \notin Operations
    /\ returnData' = Append(returnData, RawRecord(None))
    /\ i' = NextIndex(i)
    /\ UNCHANGED <<items, credentials, pc, commonParameters, outstanding, callLog,
                   received, raised, error, output>>

\* lines 234-242: the awaited call rejected
ExternalCallFails ==
    /\ pc \in {"awaitGetItems", "awaitSearchItems", "awaitGetBrowseNodes"}
    /\ \E cause \in Causes : Catch(cause)

\* lines 153, 246: the loop is over, return [returnData]
Return ==
    /\ pc = "loop" /\ i >= Len(items)
    /\ pc' = "returned"
    /\ output' = Some(<<returnData>>)
    /\ UNCHANGED <<items, credentials, i, returnData, commonParameters, outstanding,
                   callLog, received, raised, error>>

Next ==
    \/ ResolveAuth
    \/ IterGetItems
    \/ GetItemsReturns
    \/ IterSearchItems
    \/ SearchItemsReturns
    \/ IterGetBrowseNodes
    \/ GetBrowseNodesReturns
    \/ IterOtherOperation
    \/ ExternalCallFails
    \/ Return

\* The state on entry to execute, for a given set of identifier strings and
\* given item counts.  A node with an input connection runs on at least one item.
InitWith(idValues, counts) ==
    /\ \E n \in counts : items \in [1..n -> ItemsFor(idValues)]
    /\ credentials \in CredentialValues
    /\ pc = "start"
    /\ i = 0
    /\ returnData = <<>>
    /\ commonParameters = None
    /\ outstanding = <<>>
    /\ callLog = <<>>
    /\ received = <<>>
    /\ raised = <<>>
    /\ error = None
    /\ output = None

\* Runs over up to MaxItems items, identifier strings from a few shapes.
MainIds == {None, Some(<<>>), Some(<<"A">>), Some(<<"A", ",", "B">>)}
Init == InitWith(MainIds, 1..MaxItems)
Spec == Init /\ [][Next]_vars

\* Runs over one item, identifier strings all strings up to MaxIdLen characters.
InitIds == InitWith({None} \cup {Some(s) : s \in IdStrings}, {1})
SpecIds == InitIds /\ [][Next]_vars

----------------------------------------------------------------------------
(* Properties *)

\* Vocabulary of the properties
Calls == {callLog[k] : k \in 1..Len(callLog)}
Received == {received[k] : k \in 1..Len(received)}
ItemOf(idx) == items[idx + 1]
ResponseFor(idx) == (CHOOSE e \in Received : e.item = idx).response
OnlyDeclaredOperations == \A k \in 1..Len(items) : items[k].operation \in Operations
ItemsOrEmpty(r) == IF SearchResultItems(r) # None THEN SearchResultItems(r)[1] ELSE <<>>
ExpectedRecord(op, r) ==
    IF op = "searchItems"
    THEN [json |-> [kind |-> "results", results |-> ItemsOrEmpty(r)]]
    ELSE [json |-> [kind |-> "raw", response |-> r]]
MissingIds(it) ==
    \/ it.operation = "getItems" /\ (it.itemIds = None \/ it.itemIds = Some(<<>>))
    \/ it.operation = "getBrowseNodes" /\ (it.browseNodeIds = None \/ it.browseNodeIds = Some(<<>>))
RECURSIVE Join(_)
Join(l) == IF Len(l) = 1 THEN l[1] ELSE l[1] \o <<",">> \o Join(Tail(l))
IdsAreSplitOf(l, s) ==
    /\ Len(l) >= 1
    /\ \A k \in 1..Len(l) : ~Includes(l[k], ",")
    /\ Join(l) = s
    /\ (~Includes(s, ",") => l = <<s>>)
    /\ (s = <<"A", ",", "B", ",", "C">> => l = << <<"A">>, <<"B">>, <<"C">> >>)
ExpectedAuth ==
    [AccessKey |-> credentials.accessKey, SecretKey |-> credentials.secretKey,
     PartnerTag |-> IF items[1].partnerTag # "" THEN items[1].partnerTag
                    ELSE credentials.partnerTag,
     Marketplace |-> credentials.marketplace, PartnerType |-> "Associates"]

\* C1: when execute returns for a list of N items, each selecting searchItems,
\* getItems or getBrowseNodes, the output has exactly N records and the k-th
\* record is the one produced for the k-th item.
C1_OneOutputPerInput ==
    (pc = "returned" /\ OnlyDeclaredOperations) =>
        /\ Len(output[1][1]) = Len(items)
        /\ \A k \in 1..Len(items) :
              output[1][1][k] = ExpectedRecord(items[k].operation, ResponseFor(k - 1))

\* C2: when every item selects searchItems and execute returns, every output
\* record has shape {results: T}, T the Items of a response or the empty list;
\* no record is a raw response or any other shape.
C2_SearchOutputShape ==
    (pc = "returned" /\ \A k \in 1..Len(items) : items[k].operation = "searchItems") =>
        \A m \in 1..Len(output[1][1]) :
            /\ output[1][1][m].json.kind = "results"
            /\ \E e \in Received : output[1][1][m].json.results = ItemsOrEmpty(e.response)

\* C3: with the partnerTag parameter of item 0 and the credential partnerTag both
\* empty, execute never gets past the configuration check: it fails with the
\* 'PartnerTag is required' error, no external call is ever issued, no item is
\* processed.
C3_NoPartnerTagNoCall ==
    (items[1].partnerTag = "" /\ credentials.partnerTag = "") =>
        /\ callLog = <<>> /\ outstanding = <<>>
        /\ pc \in {"start", "thrown"}
        /\ (pc = "thrown" => error = Some(ConfigMessage))
        /\ i = 0 /\ returnData = <<>> /\ raised = <<>> /\ output = None

C3_Witness ==
    /\ items[1].partnerTag = "" /\ credentials.partnerTag = ""
    /\ Len(items) = 2 /\ items[1].operation = "searchItems" /\ items[2].operation = "getItems"
    /\ pc = "thrown" /\ error = Some(ConfigMessage)

\* C4: an item selecting getItems with empty or absent itemIds, or getBrowseNodes
\* with empty or absent browseNodeIds, gets no external call; the run never goes
\* past it and never returns, and when the run reaches it, it fails there with the
\* validation error.
C4_MissingIdsNoCall ==
    \A k \in 1..Len(items) : MissingIds(items[k]) =>
        /\ \A c \in Calls : c.item # k - 1
        /\ i <= k - 1
        /\ pc # "returned"
        /\ (i = k - 1 /\ pc # "start") => pc \in {"loop", "thrown"}
        /\ (i = k - 1 /\ pc = "thrown" /\ commonParameters # None) =>
              /\ raised = <<[item |-> k - 1,
                             cause |-> [isError |-> TRUE,
                                        message |-> IF items[k].operation = "getItems"
                                                    THEN ItemIdsMessage
                                                    ELSE BrowseNodeIdsMessage]]>>

C4_Witness ==
    /\ Len(items) = 2
    /\ items[1].operation = "getBrowseNodes" /\ items[1].browseNodeIds = Some(<<"A">>)
    /\ items[2].operation = "getItems" /\ items[2].itemIds = Some(<<>>)
    /\ pc = "thrown" /\ i = 1 /\ Len(callLog) = 1
    /\ raised # <<>> /\ raised[1].cause.message = ItemIdsMessage

C6_Sequential ==
    /\ Len(outstanding) <= 1
    /\ \A a, b \in 1..Len(callLog) : a < b => callLog[a].item < callLog[b].item
    /\ outstanding # <<>> =>
          /\ outstanding[1] = callLog[Len(callLog)]
          /\ outstanding[1].item = i
          /\ pc \in {"awaitGetItems", "awaitSearchItems", "awaitGetBrowseNodes"}
    /\ pc \in {"awaitGetItems", "awaitSearchItems", "awaitGetBrowseNodes"} =>
          Len(outstanding) = 1
    /\ pc = "loop" =>
          /\ outstanding = <<>>
          /\ \A c \in Calls : c.item < i /\ \E e \in Received : e.item = c.item

C6_Witness ==
    /\ Len(callLog) = 2 /\ Len(outstanding) = 1
    /\ callLog[1].item = 0 /\ callLog[2].item = 1 /\ Len(received) = 1

C8_IdsSplit ==
    \A c \in Calls :
        /\ c.fn = "GetItems" => IdsAreSplitOf(c.req.ItemIds, ItemOf(c.item).itemIds[1])
        /\ c.fn = "GetBrowseNodes" =>
              IdsAreSplitOf(c.req.BrowseNodeIds, ItemOf(c.item).browseNodeIds[1])

C8_Witness ==
    /\ Len(callLog) = 1 /\ callLog[1].fn = "GetItems"
    /\ items[1].itemIds = Some(<<"A", ",", "B", ",", "C">>)
    /\ callLog[1].req.ItemIds = << <<"A">>, <<"B">>, <<"C">> >>

\* C9: the request of every SearchItems call has Keywords equal to the item's
\* keywords, no SearchIndex field when the category is "All" (given or
\* defaulted), and SearchIndex equal to the category otherwise.
C9_SearchRequest ==
    \A c \in Calls : c.fn = "SearchItems" =>
        LET it == ItemOf(c.item)
            category == IF it.searchIndex = None THEN "All" ELSE it.searchIndex[1]
        IN /\ c.req.Keywords = it.keywords
           /\ category = "All" => DOMAIN c.req = {"Keywords"}
           /\ category # "All" =>
                 /\ DOMAIN c.req = {"Keywords", "SearchIndex"}
                 /\ c.req.SearchIndex = category

C9_Witness ==
    /\ Len(callLog) = 2
    /\ items[1].searchIndex = None /\ callLog[1].req = [Keywords |-> "socks"]
    /\ items[2].searchIndex = Some("Electronics")
    /\ callLog[2].req = [Keywords |-> "tv", SearchIndex |-> "Electronics"]

\* C10: once resolved, the authentication record never changes, and every
\* external call of the run carries it: the credential's keys and marketplace,
\* PartnerType "Associates", and as PartnerTag the partnerTag parameter of item 0
\* when non-empty, the credential default otherwise.
C10_SameAuth ==
    /\ commonParameters # None => commonParameters = Some(ExpectedAuth)
    /\ \A c \in Calls : c.auth = ExpectedAuth

C10_Witness ==
    /\ Len(callLog) = 2 /\ callLog[2].item = 1
    /\ items[1].partnerTag = "override-21" /\ items[2].partnerTag = ""
    /\ credentials.partnerTag = "default-20"
    /\ callLog[2].auth.PartnerTag = "override-21"

====
